---------------------------- MODULE Spec2Model ----------------------------
(***************************************************************************)
(* Model of Fitting/constraint_eqs.py: the generator of CalculiX node,     *)
(* boundary and *EQUATION fragments.                                       *)
(*                                                                         *)
(* Text is modelled line by line.  A line is the sequence of the fields    *)
(* that str.split(', ') yields for it, so that an output line built by an  *)
(* f-string "a, b, c" is <<"a", "b", "c">> and a text is a sequence of     *)
(* lines.  A float is modelled by its value in tenths.  What the script     *)
(* prints to standard output is left out.                                  *)
(***************************************************************************)
EXTENDS Integers, Sequences, FiniteSets, TLC

VARIABLES
    file,                 \* content of Fitting_fea.inp, or NoFile
    nodes,                \* the module-level list `nodes`
    pc,                   \* position of the module-level script
    err,                  \* the exception that ended the run, or NoError
    dummy_base_nodes,     \* result of the first gen_nodes call
    dummy_movable_nodes,  \* result of the second gen_nodes call
    nodes_txt,            \* content of nodes.txt, or Unopened
    boundaries_txt,       \* content of boundaries.txt, or Unopened
    equations_txt,        \* content of equations.txt, or Unopened
    call,                 \* a single call of one function: its name and arguments
    ret                   \* what that call returned, or NoReturn

vars == <<file, nodes, pc, err, dummy_base_nodes, dummy_movable_nodes,
          nodes_txt, boundaries_txt, equations_txt, call, ret>>

scriptVars == <<file, nodes, pc, err, dummy_base_nodes, dummy_movable_nodes,
                nodes_txt, boundaries_txt, equations_txt>>

-----------------------------------------------------------------------------
(* Bounds of the model *)

MaxLines == 4

MaxNodes == 2

(* Node identifiers used in query lists and in the input file *)
NodeIds == {7, 8}

(* Lists of node identifiers of bounded length *)
NodeLists == UNION {[1..n -> NodeIds] : n \in 0..MaxNodes}

(* Starting identifiers tried for a single gen_nodes call *)
StartIds == {100, 5487}

-----------------------------------------------------------------------------
(* The input file *)

(* A file on disk: whether it exists (or has been opened for writing) and its lines *)
NoFile == [exists |-> FALSE, lines |-> <<>>]

ExistingFile(ls) == [exists |-> TRUE, lines |-> ls]

MarkerLine == <<"*Node">>

CommentLine == <<"** Elements">>

RecordA == <<"7", "1.0", "2.0", "3.0">>

RecordB == <<"7", "4", "5.50", "6.0">>

RecordC == <<"8", "6.0", "4", "1.0">>

NotANumberLine == <<"8", "a", "2.0", "3.0">>

(* A second "*Node" line inside the section is the model's line that
   split(', ') does not cut into four fields *)
InputLines == {MarkerLine, CommentLine, RecordA, RecordB, RecordC, NotANumberLine}

(* The *Node section of the spec's end-to-end example is not among them: the
   model's identifiers are 7 and 8 *)
InputTexts == UNION {[1..n -> InputLines] : n \in 0..MaxLines}

Files == {NoFile} \cup {ExistingFile(ls) : ls \in InputTexts}

-----------------------------------------------------------------------------
(* Exceptions and results *)

NoError == "none"

ValueError == "ValueError"

KeyError == "KeyError"

FileNotFoundError == "FileNotFoundError"

Ok(v) == [err |-> NoError, key |-> "", val |-> v]

Raise(e, k) == [err |-> e, key |-> k, val |-> <<>>]

-----------------------------------------------------------------------------
(* Python primitives used by the script *)

(* str(n) and f"{n}" for an int *)
str(n) == ToString(n)

(* The fields of the model's lines that contain the substring "**" *)
StarTexts == {"** Elements"}

(* The fields of the model's lines that contain the substring "*Node" *)
NodeTexts == {"*Node"}

(* "**" in line *)
HasStars(line) == \E j \in 1..Len(line) : line[j] \in StarTexts

(* "*Node" in line *)
HasNodeMarker(line) == \E j \in 1..Len(line) : line[j] \in NodeTexts

(* The texts float() accepts, among the fields of the model's lines *)
FloatTexts == {"1.0", "2.0", "3.0", "4", "5.50", "6.0"}

(* float(t) for t in FloatTexts: the value, in tenths *)
float(t) ==
    CASE t = "1.0" -> 10
      [] t = "2.0" -> 20
      [] t = "3.0" -> 30
      [] t = "4" -> 40
      [] t = "5.50" -> 55
      [] t = "6.0" -> 60

(* f"{x}" for a float x: repr of the value, here always with one decimal *)
repr(x) == ToString(x \div 10) \o "." \o ToString(x % 10)

Point(px, py, pz) == [x |-> px, y |-> py, z |-> pz]

EmptyMap == [k \in {} |-> Point(0, 0, 0)]

(* Variant of SetItem that keeps the entry a key already has *)
SetItemKeepFirst(m, key, p) ==
    [k \in DOMAIN m \cup {key} |-> IF k \in DOMAIN m THEN m[k] ELSE p]

(* nodes_map[key] = p *)
SetItem(m, key, p) ==
    [k \in DOMAIN m \cup {key} |-> IF k = key THEN p ELSE m[k]]

-----------------------------------------------------------------------------
(* get_nodes_map *)

RECURSIVE ScanLinesNoBreak(_, _, _, _)
(* Variant of ScanLines that skips a comment-marker line instead of stopping at it *)
ScanLinesNoBreak(lines, i, found, nodes_map) ==
    IF i > Len(lines) THEN Ok(nodes_map)
    ELSE LET line == lines[i] IN
         IF found
         THEN IF HasStars(line) THEN ScanLinesNoBreak(lines, i + 1, TRUE, nodes_map)
              ELSE IF Len(line) # 4 THEN Raise(ValueError, "")
              ELSE IF \E j \in 2..4 : line[j] \notin FloatTexts
                   THEN Raise(ValueError, "")
              ELSE ScanLinesNoBreak(lines, i + 1, TRUE,
                                    SetItem(nodes_map, line[1],
                                            Point(float(line[2]), float(line[3]),
                                                  float(line[4]))))
         ELSE IF HasNodeMarker(line)
              THEN ScanLinesNoBreak(lines, i + 1, TRUE, nodes_map)
              ELSE ScanLinesNoBreak(lines, i + 1, FALSE, nodes_map)

RECURSIVE ScanLines(_, _, _, _)
(* The for loop of get_nodes_map from line i on *)
ScanLines(lines, i, found, nodes_map) ==
    IF i > Len(lines) THEN Ok(nodes_map)
    ELSE LET line == lines[i] IN
         IF found
         THEN IF HasStars(line) THEN Ok(nodes_map)
              ELSE IF Len(line) # 4 THEN Raise(ValueError, "")
              ELSE IF \E j \in 2..4 : line[j] \notin FloatTexts
                   THEN Raise(ValueError, "")
              ELSE ScanLines(lines, i + 1, TRUE,
                             SetItem(nodes_map, line[1],
                                     Point(float(line[2]), float(line[3]),
                                           float(line[4]))))
         ELSE IF HasNodeMarker(line)
              THEN ScanLines(lines, i + 1, TRUE, nodes_map)
              ELSE ScanLines(lines, i + 1, FALSE, nodes_map)

(* Variant of get_nodes_map that starts with found = True *)
get_nodes_map_found(calculix_file) ==
    IF ~calculix_file.exists THEN Raise(FileNotFoundError, "")
    ELSE ScanLines(calculix_file.lines, 1, TRUE, EmptyMap)

get_nodes_map(calculix_file) ==
    IF ~calculix_file.exists THEN Raise(FileNotFoundError, "")
    ELSE ScanLines(calculix_file.lines, 1, FALSE, EmptyMap)

-----------------------------------------------------------------------------
(* gen_nodes *)

NodesHeader == << <<"** MY NODES">>, <<"*Node">> >>

RECURSIVE GenLoopFromOne(_, _, _, _, _, _)
(* Variant of GenLoop that numbers the new nodes from first_node_id + 1 *)
GenLoopFromOne(first_node_id, query_nodes, nodes_map, i, s, dummy_nodes) ==
    IF i >= Len(query_nodes)
    THEN Ok([s |-> s, dummy_nodes |-> dummy_nodes])
    ELSE LET key == str(query_nodes[i + 1]) IN
         IF key \notin DOMAIN nodes_map THEN Raise(KeyError, key)
         ELSE LET p == nodes_map[key] IN
              GenLoopFromOne(first_node_id, query_nodes, nodes_map, i + 1,
                             Append(s, <<str(first_node_id + i + 1), repr(p.x),
                                         repr(p.y), repr(p.z)>>),
                             Append(dummy_nodes, first_node_id + i + 1))

RECURSIVE GenLoop(_, _, _, _, _, _)
(* The for loop of gen_nodes from enumerate index i on *)
GenLoop(first_node_id, query_nodes, nodes_map, i, s, dummy_nodes) ==
    IF i >= Len(query_nodes)
    THEN Ok([s |-> s, dummy_nodes |-> dummy_nodes])
    ELSE LET key == str(query_nodes[i + 1]) IN
         IF key \notin DOMAIN nodes_map THEN Raise(KeyError, key)
         ELSE LET p == nodes_map[key] IN
              GenLoop(first_node_id, query_nodes, nodes_map, i + 1,
                      Append(s, <<str(first_node_id + i), repr(p.x),
                                  repr(p.y), repr(p.z)>>),
                      Append(dummy_nodes, first_node_id + i))

gen_nodes(first_node_id, query_nodes, calculix_file) ==
    LET m == get_nodes_map(calculix_file) IN
    IF m.err # NoError THEN m
    ELSE GenLoop(first_node_id, query_nodes, m.val, 0, NodesHeader, <<>>)

-----------------------------------------------------------------------------
(* The formatters *)

MovableHeader == << <<"** MY BOUNDARIES">>, <<"*BOUNDARY">> >>

RECURSIVE constrain_dofs_all(_)
(* Variant of constrain_dofs that restrains degrees of freedom 1 to 3 *)
constrain_dofs_all(ns) ==
    IF ns = <<>> THEN MovableHeader
    ELSE Append(constrain_dofs_all(SubSeq(ns, 1, Len(ns) - 1)),
                <<str(ns[Len(ns)]), "1", "3">>)

RECURSIVE constrain_dofs(_)
constrain_dofs(ns) ==
    IF ns = <<>> THEN MovableHeader
    ELSE Append(constrain_dofs(SubSeq(ns, 1, Len(ns) - 1)),
                <<str(ns[Len(ns)]), "1", "2">>)

BaseHeader == << <<"** Name: MY BOUNDARIES">>, <<"*BOUNDARY">> >>

RECURSIVE fix_base_reversed(_)
(* Variant of fix_base that emits the records in reverse order *)
fix_base_reversed(ns) ==
    IF ns = <<>> THEN BaseHeader
    ELSE Append(fix_base_reversed(SubSeq(ns, 2, Len(ns))),
                <<str(ns[1]), "1", "3", "0">>)

RECURSIVE fix_base(_)
fix_base(ns) ==
    IF ns = <<>> THEN BaseHeader
    ELSE Append(fix_base(SubSeq(ns, 1, Len(ns) - 1)),
                <<str(ns[Len(ns)]), "1", "3", "0">>)

(* Variant of Equation with the base and the movable node exchanged *)
EquationSwapped(node_id, base_node_id, mv_node_id) ==
    << <<"** MY EQUATIONS">>, <<"*EQUATION">>, <<"3">>,
       <<str(node_id), str(3), "-1", str(mv_node_id), str(3), "1",
         str(base_node_id), str(3), "1">> >>

(* The text MPC appends for one triple *)
Equation(node_id, base_node_id, mv_node_id) ==
    << <<"** MY EQUATIONS">>, <<"*EQUATION">>, <<"3">>,
       <<str(node_id), str(3), "-1", str(base_node_id), str(3), "1",
         str(mv_node_id), str(3), "1">> >>

Min(a, b) == IF a < b THEN a ELSE b

RECURSIVE MPCLoop(_, _, _, _)
(* The first n triples of zip(ns, base_nodes, movable_nodes), formatted and joined *)
MPCLoop(ns, base_nodes, movable_nodes, n) ==
    IF n = 0 THEN <<>>
    ELSE MPCLoop(ns, base_nodes, movable_nodes, n - 1)
         \o Equation(ns[n], base_nodes[n], movable_nodes[n])

MPC(ns, base_nodes, movable_nodes) ==
    MPCLoop(ns, base_nodes, movable_nodes,
            Min(Len(ns), Min(Len(base_nodes), Len(movable_nodes))))

-----------------------------------------------------------------------------
(* The module-level script *)

FIRST_NODE_ID == 5487

(* Variant of MovableFirstId that starts on the last base identifier *)
MovableFirstIdOverlap(base_nodes) ==
    IF base_nodes = <<>> THEN FIRST_NODE_ID ELSE FIRST_NODE_ID + Len(base_nodes) - 1

(* Variant of MovableFirstId without the offset *)
MovableFirstIdSame(base_nodes) == FIRST_NODE_ID

(* first_node_id of the second gen_nodes call *)
MovableFirstId(base_nodes) == FIRST_NODE_ID + Len(base_nodes)

Opened(ls) == [exists |-> TRUE, lines |-> ls]

(* f.write(s) *)
Write(f, s) == [f EXCEPT !.lines = @ \o s]

NoCall == [fn |-> "none", first_node_id |-> 0, lists |-> <<>>, file |-> NoFile]

NoReturn == [done |-> FALSE, err |-> NoError, key |-> "", val |-> <<>>]

Init ==
    /\ file \in Files
    /\ nodes \in NodeLists
    /\ pc = "open_nodes"
    /\ err = Raise(NoError, "")
    /\ dummy_base_nodes = <<>>
    /\ dummy_movable_nodes = <<>>
    /\ nodes_txt = NoFile
    /\ boundaries_txt = NoFile
    /\ equations_txt = NoFile
    /\ call = NoCall
    /\ ret = NoReturn

(* with open("nodes.txt", "w") as f *)
OpenNodes ==
    /\ pc = "open_nodes"
    /\ nodes_txt' = Opened(<<>>)
    /\ pc' = "gen_base"
    /\ UNCHANGED <<file, nodes, err, dummy_base_nodes, dummy_movable_nodes,
                   boundaries_txt, equations_txt, call, ret>>

(* Variant of GenBase that swallows the exception and lets the script go on *)
GenBaseSwallow ==
    /\ pc = "gen_base"
    /\ LET r == gen_nodes(FIRST_NODE_ID, nodes, file) IN
       IF r.err # NoError
       THEN /\ err' = Raise(r.err, r.key)
            /\ pc' = "open_boundaries"
            /\ UNCHANGED <<dummy_base_nodes, nodes_txt>>
       ELSE /\ dummy_base_nodes' = r.val.dummy_nodes
            /\ nodes_txt' = Write(nodes_txt, r.val.s)
            /\ pc' = "gen_movable"
            /\ UNCHANGED err
    /\ UNCHANGED <<file, nodes, dummy_movable_nodes, boundaries_txt,
                   equations_txt, call, ret>>

(* s, dummy_base_nodes = gen_nodes(first_node_id=5487, query_nodes=nodes); f.write(s) *)
GenBase ==
    /\ pc = "gen_base"
    /\ LET r == gen_nodes(FIRST_NODE_ID, nodes, file) IN
       IF r.err # NoError
       THEN /\ err' = Raise(r.err, r.key)
            /\ pc' = "aborted"
            /\ UNCHANGED <<dummy_base_nodes, nodes_txt>>
       ELSE /\ dummy_base_nodes' = r.val.dummy_nodes
            /\ nodes_txt' = Write(nodes_txt, r.val.s)
            /\ pc' = "gen_movable"
            /\ UNCHANGED err
    /\ UNCHANGED <<file, nodes, dummy_movable_nodes, boundaries_txt,
                   equations_txt, call, ret>>

(* s, dummy_movable_nodes = gen_nodes(first_node_id=5487+len(dummy_base_nodes), ...); f.write(s) *)
GenMovable ==
    /\ pc = "gen_movable"
    /\ LET r == gen_nodes(MovableFirstId(dummy_base_nodes), nodes, file) IN
       IF r.err # NoError
       THEN /\ err' = Raise(r.err, r.key)
            /\ pc' = "aborted"
            /\ UNCHANGED <<dummy_movable_nodes, nodes_txt>>
       ELSE /\ dummy_movable_nodes' = r.val.dummy_nodes
            /\ nodes_txt' = Write(nodes_txt, r.val.s)
            /\ pc' = "open_boundaries"
            /\ UNCHANGED err
    /\ UNCHANGED <<file, nodes, dummy_base_nodes, boundaries_txt,
                   equations_txt, call, ret>>

(* with open("boundaries.txt", "w") as f *)
OpenBoundaries ==
    /\ pc = "open_boundaries"
    /\ boundaries_txt' = Opened(<<>>)
    /\ pc' = "fix_base"
    /\ UNCHANGED <<file, nodes, err, dummy_base_nodes, dummy_movable_nodes,
                   nodes_txt, equations_txt, call, ret>>

(* s = fix_base(dummy_base_nodes); f.write(s) *)
FixBase ==
    /\ pc = "fix_base"
    /\ boundaries_txt' = Write(boundaries_txt, fix_base(dummy_base_nodes))
    /\ pc' = "constrain_dofs"
    /\ UNCHANGED <<file, nodes, err, dummy_base_nodes, dummy_movable_nodes,
                   nodes_txt, equations_txt, call, ret>>

(* s = constrain_dofs(dummy_movable_nodes); f.write(s) *)
ConstrainDofs ==
    /\ pc = "constrain_dofs"
    /\ boundaries_txt' = Write(boundaries_txt, constrain_dofs(dummy_movable_nodes))
    /\ pc' = "open_equations"
    /\ UNCHANGED <<file, nodes, err, dummy_base_nodes, dummy_movable_nodes,
                   nodes_txt, equations_txt, call, ret>>

(* with open("equations.txt", "w") as f *)
OpenEquations ==
    /\ pc = "open_equations"
    /\ equations_txt' = Opened(<<>>)
    /\ pc' = "mpc"
    /\ UNCHANGED <<file, nodes, err, dummy_base_nodes, dummy_movable_nodes,
                   nodes_txt, boundaries_txt, call, ret>>

(* s = MPC(nodes, dummy_base_nodes, dummy_movable_nodes); f.write(s) *)
WriteEquations ==
    /\ pc = "mpc"
    /\ equations_txt' = Write(equations_txt,
                              MPC(nodes, dummy_base_nodes, dummy_movable_nodes))
    /\ pc' = "done"
    /\ UNCHANGED <<file, nodes, err, dummy_base_nodes, dummy_movable_nodes,
                   nodes_txt, boundaries_txt, call, ret>>

Next ==
    \/ OpenNodes
    \/ GenBase
    \/ GenMovable
    \/ OpenBoundaries
    \/ FixBase
    \/ ConstrainDofs
    \/ OpenEquations
    \/ WriteEquations

Spec == Init /\ [][Next]_vars

-----------------------------------------------------------------------------
(* Single calls of the functions, on arguments drawn from bounded sets *)

GetNodesMapCalls ==
    {[fn |-> "get_nodes_map", first_node_id |-> 0, lists |-> <<>>, file |-> f] :
        f \in Files}

GenNodesCalls ==
    {[fn |-> "gen_nodes", first_node_id |-> n, lists |-> <<q>>, file |-> f] :
        n \in StartIds, q \in NodeLists, f \in Files}

ListCalls(name) ==
    {[fn |-> name, first_node_id |-> 0, lists |-> <<q>>, file |-> NoFile] :
        q \in NodeLists}

MPCCalls ==
    {[fn |-> "MPC", first_node_id |-> 0, lists |-> <<a, b, c>>, file |-> NoFile] :
        a \in NodeLists, b \in NodeLists, c \in NodeLists}

Calls == GetNodesMapCalls \cup GenNodesCalls \cup ListCalls("fix_base")
         \cup ListCalls("constrain_dofs") \cup MPCCalls

Returned(r) == [done |-> TRUE, err |-> r.err, key |-> r.key, val |-> r.val]

InitFn ==
    /\ call \in Calls
    /\ ret = NoReturn
    /\ file = NoFile
    /\ nodes = <<>>
    /\ pc = "idle"
    /\ err = Raise(NoError, "")
    /\ dummy_base_nodes = <<>>
    /\ dummy_movable_nodes = <<>>
    /\ nodes_txt = NoFile
    /\ boundaries_txt = NoFile
    /\ equations_txt = NoFile

CallGetNodesMap ==
    /\ call.fn = "get_nodes_map"
    /\ ~ret.done
    /\ ret' = Returned(get_nodes_map(call.file))
    /\ UNCHANGED <<call, scriptVars>>

CallGenNodes ==
    /\ call.fn = "gen_nodes"
    /\ ~ret.done
    /\ ret' = Returned(gen_nodes(call.first_node_id, call.lists[1], call.file))
    /\ UNCHANGED <<call, scriptVars>>

CallFixBase ==
    /\ call.fn = "fix_base"
    /\ ~ret.done
    /\ ret' = Returned(Ok(fix_base(call.lists[1])))
    /\ UNCHANGED <<call, scriptVars>>

CallConstrainDofs ==
    /\ call.fn = "constrain_dofs"
    /\ ~ret.done
    /\ ret' = Returned(Ok(constrain_dofs(call.lists[1])))
    /\ UNCHANGED <<call, scriptVars>>

CallMPC ==
    /\ call.fn = "MPC"
    /\ ~ret.done
    /\ ret' = Returned(Ok(MPC(call.lists[1], call.lists[2], call.lists[3])))
    /\ UNCHANGED <<call, scriptVars>>

NextFn ==
    \/ CallGetNodesMap
    \/ CallGenNodes
    \/ CallFixBase
    \/ CallConstrainDofs
    \/ CallMPC

SpecFn == InitFn /\ [][NextFn]_vars

-----------------------------------------------------------------------------
(* What the input file says, read off its lines without running the parser *)

HasMarker(ls) == \E j \in 1..Len(ls) : ls[j] = MarkerLine

(* Index of the first node-section marker *)
MarkerIdx(ls) ==
    CHOOSE j \in 1..Len(ls) :
        ls[j] = MarkerLine /\ \A h \in 1..(j - 1) : ls[h] # MarkerLine

HasTerminator(ls) ==
    HasMarker(ls) /\ \E j \in (MarkerIdx(ls) + 1)..Len(ls) : ls[j] = CommentLine

(* Index of the first comment-marker line after the marker; past the end if none *)
TermIdx(ls) ==
    IF HasTerminator(ls)
    THEN CHOOSE j \in (MarkerIdx(ls) + 1)..Len(ls) :
             ls[j] = CommentLine
             /\ \A h \in (MarkerIdx(ls) + 1)..(j - 1) : ls[h] # CommentLine
    ELSE Len(ls) + 1

(* Indices of the lines between the marker and the terminator *)
Section(ls) ==
    IF HasMarker(ls) THEN (MarkerIdx(ls) + 1)..(TermIdx(ls) - 1) ELSE {}

WellFormed(line) == line \in {RecordA, RecordB, RecordC}

SectionWellFormed(ls) == \A j \in Section(ls) : WellFormed(ls[j])

(* The coordinates written on a record line, in tenths *)
WrittenPoint(line) ==
    CASE line = RecordA -> Point(10, 20, 30)
      [] line = RecordB -> Point(40, 55, 60)
      [] line = RecordC -> Point(60, 40, 10)

(* The same coordinates as Python prints them *)
ShownPoint(line) ==
    CASE line = RecordA -> <<"1.0", "2.0", "3.0">>
      [] line = RecordB -> <<"4.0", "5.5", "6.0">>
      [] line = RecordC -> <<"6.0", "4.0", "1.0">>

Digit(d) ==
    CASE d = 0 -> "0" [] d = 1 -> "1" [] d = 2 -> "2" [] d = 3 -> "3"
      [] d = 4 -> "4" [] d = 5 -> "5" [] d = 6 -> "6" [] d = 7 -> "7"
      [] d = 8 -> "8" [] d = 9 -> "9"

RECURSIVE IdText(_)
(* The decimal text of a non-negative identifier *)
IdText(n) == IF n < 10 THEN Digit(n) ELSE IdText(n \div 10) \o Digit(n % 10)

(* Indices of the section's record lines that carry identifier n *)
LinesOf(ls, n) == {j \in Section(ls) : ls[j][1] = IdText(n)}

Last(S) == CHOOSE j \in S : \A h \in S : h <= j

(* The record line that decides the coordinates of node n *)
LineOf(ls, n) == ls[Last(LinesOf(ls, n))]

(* A file with a node section, a terminator and only record lines between them *)
ValidInput(f) ==
    /\ f.exists
    /\ HasTerminator(f.lines)
    /\ SectionWellFormed(f.lines)

(* Indices of the lines of a text whose first field is the given text *)
LinesWith(text, first) == {j \in 1..Len(text) : text[j][1] = first}

-----------------------------------------------------------------------------
(* Claims about single calls, checked under SpecFn *)

GenNodesReturned == ret.done /\ call.fn = "gen_nodes"

(* Every query node has a record line in a well-formed node section of the file *)
AllPresent(f, q) ==
    /\ f.exists
    /\ HasMarker(f.lines)
    /\ SectionWellFormed(f.lines)
    /\ \A i \in 1..Len(q) : LinesOf(f.lines, q[i]) # {}

(* C1: for every starting identifier N and every list of k query nodes that are
   all in the node table, gen_nodes returns the identifiers N, N+1, ..., N+k-1
   in that order, and its i-th node record carries identifier N+i (i from 0)
   and the coordinates of the i-th query node. *)
C1_SequentialIds ==
    (GenNodesReturned /\ AllPresent(call.file, call.lists[1])) =>
        LET N == call.first_node_id
            q == call.lists[1]
            k == Len(q)
        IN /\ ret.err = NoError
           /\ ret.val.dummy_nodes = [i \in 1..k |-> N + i - 1]
           /\ Len(ret.val.s) = k + 2
           /\ \A i \in 1..k :
                  ret.val.s[2 + i] =
                      <<IdText(N + i - 1)>> \o ShownPoint(LineOf(call.file.lines, q[i]))

C1_Witness ==
    /\ GenNodesReturned
    /\ AllPresent(call.file, call.lists[1])
    /\ call.first_node_id = 100
    /\ call.lists[1] = <<8, 7>>
    /\ ret.val.dummy_nodes = <<100, 101>>

MPCReturned == ret.done /\ call.fn = "MPC"

(* C3: for every triple (n, b, m) that MPC formats, the text for that triple
   holds the line `3` followed by the line `n, 3, -1, b, 3, 1, m, 3, 1`, and
   over the whole list there is one such pair per triple, in input order. *)
C3_EquationLines ==
    MPCReturned =>
        LET a == call.lists[1]
            b == call.lists[2]
            m == call.lists[3]
            k == Min(Len(a), Min(Len(b), Len(m)))
            out == ret.val
        IN /\ Len(out) = 4 * k
           /\ \A i \in 1..k :
                  /\ out[4 * i - 1] = <<"3">>
                  /\ out[4 * i] = <<IdText(a[i]), "3", "-1", IdText(b[i]), "3", "1",
                                    IdText(m[i]), "3", "1">>
           /\ Cardinality({j \in 1..Len(out) : out[j] = <<"3">>}) = k
           /\ Cardinality({j \in 1..Len(out) : Len(out[j]) = 9}) = k

C3_Witness ==
    /\ MPCReturned
    /\ call.lists = << <<7, 8>>, <<8, 8>>, <<7, 7>> >>
    /\ ret.val[4] = <<"7", "3", "-1", "8", "3", "1", "7", "3", "1">>
    /\ ret.val[8] = <<"8", "3", "-1", "8", "3", "1", "7", "3", "1">>

GetNodesMapReturned == ret.done /\ call.fn = "get_nodes_map"

(* C4 as stated: for all valid node-table input get_nodes_map yields one entry
   per record line between the marker and the terminator: as many entries as
   record lines, each holding the coordinates written on its line. *)
C4_OneEntryPerLine ==
    (GetNodesMapReturned /\ ValidInput(call.file)) =>
        LET ls == call.file.lines IN
        /\ ret.err = NoError
        /\ Cardinality(DOMAIN ret.val) = Cardinality(Section(ls))
        /\ \A j \in Section(ls) :
               /\ ls[j][1] \in DOMAIN ret.val
               /\ ret.val[ls[j][1]] = WrittenPoint(ls[j])

(* C4 amended: for all valid node-table input get_nodes_map yields one entry
   per distinct identifier among the record lines between the marker and the
   terminator, each holding the coordinates written on the last line that
   carries its identifier; the number of entries equals the number of record
   lines when the identifiers of those lines are pairwise distinct. *)
C4_OneEntryPerIdentifier ==
    (GetNodesMapReturned /\ ValidInput(call.file)) =>
        LET ls == call.file.lines
            ids == {ls[j][1] : j \in Section(ls)}
        IN /\ ret.err = NoError
           /\ Cardinality(DOMAIN ret.val) = Cardinality(ids)
           /\ \A j \in Section(ls) :
                  /\ ls[j][1] \in DOMAIN ret.val
                  /\ (\A h \in Section(ls) : h > j => ls[h][1] # ls[j][1])
                         => ret.val[ls[j][1]] = WrittenPoint(ls[j])
           /\ (\A j, h \in Section(ls) : j # h => ls[j][1] # ls[h][1])
                  => Cardinality(DOMAIN ret.val) = Cardinality(Section(ls))

C4_Witness ==
    /\ GetNodesMapReturned
    /\ call.file.lines = <<MarkerLine, RecordA, RecordB, CommentLine>>
    /\ DOMAIN ret.val = {"7"}
    /\ ret.val["7"] = Point(40, 55, 60)

FixBaseReturned == ret.done /\ call.fn = "fix_base"

(* C5 as stated: fix_base on a list of k node identifiers yields k lines, one
   per node in input order, each of the form `id, 1, 3, 0`; on [7, 8] two
   lines, `7, 1, 3, 0` and `8, 1, 3, 0`. *)
C5_OnlyRecordLines ==
    FixBaseReturned =>
        LET q == call.lists[1]
            out == ret.val
        IN /\ Len(out) = Len(q)
           /\ \A i \in 1..Len(q) : out[i] = <<IdText(q[i]), "1", "3", "0">>

(* C5 amended: fix_base on a list of k node identifiers yields the two header
   lines `** Name: MY BOUNDARIES` and `*BOUNDARY` followed by k lines, one per
   node in input order, each of the form `id, 1, 3, 0`; on [7, 8] the two
   lines after the header are `7, 1, 3, 0` and `8, 1, 3, 0`. *)
C5_FixBaseLines ==
    FixBaseReturned =>
        LET q == call.lists[1]
            out == ret.val
        IN /\ Len(out) = Len(q) + 2
           /\ out[1] = <<"** Name: MY BOUNDARIES">>
           /\ out[2] = <<"*BOUNDARY">>
           /\ \A i \in 1..Len(q) : out[2 + i] = <<IdText(q[i]), "1", "3", "0">>
           /\ q = <<7, 8>> =>
                  SubSeq(out, 3, 4) = << <<"7", "1", "3", "0">>, <<"8", "1", "3", "0">> >>

C5_Witness ==
    /\ FixBaseReturned
    /\ call.lists[1] = <<7, 8>>
    /\ Len(ret.val) = 4
    /\ ret.val[4] = <<"8", "1", "3", "0">>

ConstrainDofsReturned == ret.done /\ call.fn = "constrain_dofs"

(* C6 as stated: constrain_dofs on a list of k node identifiers yields k
   lines, one per node in input order, each of the form `id, 1, 2` with no
   value field and never touching degree of freedom 3; on [7, 8] two lines,
   `7, 1, 2` and `8, 1, 2`. *)
C6_OnlyRecordLines ==
    ConstrainDofsReturned =>
        LET q == call.lists[1]
            out == ret.val
        IN /\ Len(out) = Len(q)
           /\ \A i \in 1..Len(q) : out[i] = <<IdText(q[i]), "1", "2">>

(* C6 amended: constrain_dofs on a list of k node identifiers yields the two
   header lines `** MY BOUNDARIES` and `*BOUNDARY` followed by k lines, one per
   node in input order, each of the form `id, 1, 2`: three fields, no value
   field, degrees of freedom 1 to 2 only; on [7, 8] the two lines after the
   header are `7, 1, 2` and `8, 1, 2`. *)
C6_ConstrainDofsLines ==
    ConstrainDofsReturned =>
        LET q == call.lists[1]
            out == ret.val
        IN /\ Len(out) = Len(q) + 2
           /\ out[1] = <<"** MY BOUNDARIES">>
           /\ out[2] = <<"*BOUNDARY">>
           /\ \A i \in 1..Len(q) :
                  /\ Len(out[2 + i]) = 3
                  /\ out[2 + i][1] = IdText(q[i])
                  /\ <<out[2 + i][2], out[2 + i][3]>> = <<"1", "2">>
           /\ q = <<7, 8>> =>
                  SubSeq(out, 3, 4) = << <<"7", "1", "2">>, <<"8", "1", "2">> >>

C6_Witness ==
    /\ ConstrainDofsReturned
    /\ call.lists[1] = <<7, 8>>
    /\ Len(ret.val) = 4
    /\ ret.val[4] = <<"8", "1", "2">>

(* C9: once the marker has been seen get_nodes_map stops at the first later
   line containing `**`: no line after that terminator contributes an entry or
   an error, whatever it is, and every record line before it has been parsed. *)
C9_StopsAtTerminator ==
    (GetNodesMapReturned /\ call.file.exists /\ HasTerminator(call.file.lines)) =>
        LET ls == call.file.lines IN
        /\ (ret.err = NoError) = SectionWellFormed(ls)
        /\ ret.err \in {NoError, ValueError}
        /\ ret.err = NoError =>
               DOMAIN ret.val = {ls[j][1] : j \in Section(ls)}

C9_Witness ==
    /\ GetNodesMapReturned
    /\ call.file.lines = <<MarkerLine, RecordA, CommentLine, RecordC>>
    /\ ret.err = NoError
    /\ DOMAIN ret.val = {"7"}

-----------------------------------------------------------------------------
(* Claims about a run of the script, checked under Spec *)

BothSynthesized ==
    pc \in {"open_boundaries", "fix_base", "constrain_dofs", "open_equations",
            "mpc", "done"}

Range(seq) == {seq[i] : i \in 1..Len(seq)}

(* C2: the second gen_nodes call, on the same query list and with its first
   identifier offset by the number of identifiers the first call returned,
   returns identifiers disjoint from the first call's, for every list length
   k >= 0. *)
C2_DisjointRanges ==
    BothSynthesized =>
        /\ Len(dummy_base_nodes) = Len(nodes)
        /\ Len(dummy_movable_nodes) = Len(nodes)
        /\ Range(dummy_base_nodes) \cap Range(dummy_movable_nodes) = {}

C2_Witness ==
    /\ pc = "open_boundaries"
    /\ Len(nodes) = MaxNodes
    /\ Cardinality(Range(dummy_base_nodes) \cup Range(dummy_movable_nodes))
           = 2 * MaxNodes

(* C7: if the input file has no node-section marker line, get_nodes_map raises
   nothing and returns an empty table, and the run then fails at the first
   lookup of gen_nodes whenever the query list is not empty. *)
C7_NoMarker ==
    (file.exists /\ ~HasMarker(file.lines)) =>
        /\ get_nodes_map(file).err = NoError
        /\ DOMAIN get_nodes_map(file).val = {}
        /\ (nodes # <<>> /\ pc \notin {"open_nodes", "gen_base"}) =>
               /\ pc = "aborted"
               /\ err.err = KeyError
               /\ err.key = IdText(nodes[1])
               /\ nodes_txt = Opened(<<>>)
        /\ nodes = <<>> => pc # "aborted"

C7_Witness ==
    /\ file.exists
    /\ ~HasMarker(file.lines)
    /\ \E j \in 1..Len(file.lines) : file.lines[j] = RecordC
    /\ \E j \in 1..Len(file.lines) : file.lines[j] = NotANumberLine
    /\ nodes = <<8, 7>>
    /\ pc = "aborted"
    /\ err.err = KeyError
    /\ err.key = "8"

(* C8: after a complete run over a node list of length k, for every position
   i the i-th equation record names the i-th original node, the i-th base
   identifier 5487+i and the i-th movable identifier 5487+k+i (i from 0); the
   base identifier is in exactly one fix_base record, the movable identifier in
   exactly one constrain_dofs record, and both duplicates have the original
   node's coordinates in nodes.txt. *)
C8_OneBaseOneMovable ==
    pc = "done" =>
        LET k == Len(nodes)
            eqs == equations_txt.lines
            bnd == boundaries_txt.lines
            nds == nodes_txt.lines
        IN /\ Len(eqs) = 4 * k
           /\ \A i \in 1..k :
                  LET base == IdText(5487 + i - 1)
                      movable == IdText(5487 + k + i - 1)
                      xyz == ShownPoint(LineOf(file.lines, nodes[i]))
                  IN /\ eqs[4 * i] = <<IdText(nodes[i]), "3", "-1", base, "3", "1",
                                        movable, "3", "1">>
                     /\ Cardinality(LinesWith(bnd, base)) = 1
                     /\ \A j \in LinesWith(bnd, base) :
                            j <= k + 2 /\ bnd[j] = <<base, "1", "3", "0">>
                     /\ Cardinality(LinesWith(bnd, movable)) = 1
                     /\ \A j \in LinesWith(bnd, movable) :
                            j > k + 4 /\ bnd[j] = <<movable, "1", "2">>
                     /\ Cardinality(LinesWith(nds, base)) = 1
                     /\ \A j \in LinesWith(nds, base) : nds[j] = <<base>> \o xyz
                     /\ Cardinality(LinesWith(nds, movable)) = 1
                     /\ \A j \in LinesWith(nds, movable) : nds[j] = <<movable>> \o xyz

C8_Witness ==
    /\ pc = "done"
    /\ nodes = <<8, 7>>
    /\ equations_txt.lines[8] = <<"7", "3", "-1", "5488", "3", "1", "5490", "3", "1">>

(* C10: every failure (missing input file, malformed record line, lookup of
   an absent query node) aborts the run where it occurs and no later step
   executes: when a synthesis call fails, boundaries.txt and equations.txt are
   never opened or written, and a run that writes equations.txt has completed
   both synthesis calls and both boundary formatters without error. *)
C10_FailuresAbort ==
    /\ (pc = "aborted") = (err.err # NoError)
    /\ pc = "aborted" =>
           /\ ~ENABLED Next
           /\ ~boundaries_txt.exists
           /\ ~equations_txt.exists
    /\ (pc \notin {"open_nodes", "gen_base"} /\ ~file.exists) =>
           err.err = FileNotFoundError
    /\ (pc \notin {"open_nodes", "gen_base"} /\ file.exists
          /\ ~SectionWellFormed(file.lines)) =>
           err.err = ValueError
    /\ (pc \notin {"open_nodes", "gen_base"} /\ file.exists
          /\ SectionWellFormed(file.lines)
          /\ \E i \in 1..Len(nodes) : LinesOf(file.lines, nodes[i]) = {}) =>
           err.err = KeyError
    /\ (boundaries_txt.exists \/ equations_txt.exists) =>
           /\ err.err = NoError
           /\ Len(dummy_base_nodes) = Len(nodes)
           /\ Len(dummy_movable_nodes) = Len(nodes)
           /\ Len(nodes_txt.lines) = 2 * Len(nodes) + 4
    /\ equations_txt.lines # <<>> => pc = "done"
    /\ pc = "done" =>
           /\ equations_txt.exists
           /\ Len(boundaries_txt.lines) = 2 * Len(nodes) + 4

C10_Witness ==
    /\ pc = "aborted"
    /\ err.err = ValueError
    /\ nodes = <<7, 8>>
    /\ nodes_txt = Opened(<<>>)
    /\ ~boundaries_txt.exists
    /\ ~equations_txt.exists

=============================================================================
